---- MODULE Spec2Model ----
(***************************************************************************)
(* Model of backend/scripts/ssl_api.py: the Flask handler check_ssl of      *)
(* POST /api/check-ssl, run by concurrent request threads, and the          *)
(* SSLChecker collaborator it imports (ssl_checker.py, not part of the      *)
(* sources at hand: modelled from the specification's Prober).              *)
(***************************************************************************)
EXTENDS Integers, Sequences, FiniteSets, TLC

\* ------------------------------------------------------------------ bounds
\* Longest `hosts` array a request carries.
MaxHosts == 2

\* The request threads of the server (one request each).
Requests == {"r1", "r2"}

\* ------------------------------------------------------------- JSON values
\* A JSON value as the handler sees it after parsing: its Python type, its
\* text (scalars) and its elements (lists).
Str(s) == [t |-> "str", s |-> s, l |-> <<>>]
Num(s) == [t |-> "int", s |-> s, l |-> <<>>]
Null == [t |-> "NoneType", s |-> "None", l |-> <<>>]
List(l) == [t |-> "list", s |-> "", l |-> l]

\* The host names of the modelled network, one per behaviour of a probe.
HostNames == {"good.example", "refused.example", "raises.example", "hangs.example"}

HostStrings == {Str(h) : h \in HostNames}

\* Sequences over S of length 0..n.
SeqUpTo(S, n) == UNION {[1..k -> S] : k \in 0..n}

\* The values a request may send as `hosts`: an array of host names, a single
\* host name, or a value that is neither (a number, null).
HostsValues ==
    {List(l) : l \in SeqUpTo(HostStrings, MaxHosts)}
        \cup HostStrings \cup {Num("123"), Null}

\* ---------------------------------------------------------- request bodies
\* A request body: what request.get_json() makes of it.
\*   kind   the Python type of the parsed body ("invalid" when it is not JSON)
\*   truthy bool(data)
\*   has    whether 'hosts' in data holds (for a type that supports `in`)
\*   hosts  data['hosts'] (objects with the key only)
Body(kind, truthy, has, hosts) ==
    [kind |-> kind, truthy |-> truthy, has |-> has, hosts |-> hosts]

OtherBodies ==
    { Body("invalid", FALSE, FALSE, Null),   \* not valid JSON
      Body("NoneType", FALSE, FALSE, Null),  \* null
      Body("dict", FALSE, FALSE, Null),      \* {}
      Body("dict", TRUE, FALSE, Null),       \* {"domains": [...]}
      Body("int", TRUE, FALSE, Null),        \* 5
      Body("bool", TRUE, FALSE, Null),       \* true
      Body("str", TRUE, FALSE, Null),        \* "abc"
      Body("str", TRUE, TRUE, Null),         \* "hosts"
      Body("list", TRUE, FALSE, Null),       \* ["abc"]
      Body("list", TRUE, TRUE, Null) }       \* ["hosts"]

HostsBodies == {Body("dict", TRUE, TRUE, v) : v \in HostsValues}

Bodies == OtherBodies \cup HostsBodies

\* --------------------------------------------------------------- responses
NoResponse ==
    [status |-> 0, success |-> "absent", error |-> "", hasResults |-> FALSE,
     results |-> <<>>]

\* jsonify({'error': 'Missing hosts in request body'}), 400
Response400 ==
    [status |-> 400, success |-> "absent",
     error |-> "Missing hosts in request body", hasResults |-> FALSE,
     results |-> <<>>]

\* jsonify({'success': False, 'error': str(e)}), 500
Response500(e) ==
    [status |-> 500, success |-> "false", error |-> e, hasResults |-> FALSE,
     results |-> <<>>]

\* jsonify({'success': True, 'results': results})
Response200(res) ==
    [status |-> 200, success |-> "true", error |-> "", hasResults |-> TRUE,
     results |-> res]

\* ------------------------------------------------ SSLChecker (ssl_checker.py)
Day == 24 * 60 * 60

\* The expiry threshold of the classification: 30 days by default.
DefaultThreshold == 30 * Day

\* The clock of the handler runs; certificates are dated relative to it.
Epoch == 1000 * Day

\* The certificate a reachable host presents: its not-after time and whether it
\* is self-signed (issuer = subject, no trusted chain).
Certificate(notAfter, selfSigned) ==
    [notAfter |-> notAfter, selfSigned |-> selfSigned]

\* Classification of a retrieved certificate, a function of (certificate, now,
\* threshold): `>=` in place of `>` for expiry, the slip the claim excludes.
ClassifyInclusive(c, t, thr) ==
    IF t >= c.notAfter THEN "expired"
    ELSE IF c.notAfter - t <= thr THEN "expiring_soon"
    ELSE IF c.selfSigned THEN "self_signed"
    ELSE "ok"

\* Classification of a retrieved certificate: expired if now > not-after,
\* expiring_soon if not-after - now < threshold, self_signed if self-signed,
\* ok otherwise; the rules apply in this order.
Classify(c, t, thr) ==
    IF t > c.notAfter THEN "expired"
    ELSE IF c.notAfter - t < thr THEN "expiring_soon"
    ELSE IF c.selfSigned THEN "self_signed"
    ELSE "ok"

\* A ProbeResult: the originating host, a status, and whether a CertificateInfo
\* comes with it.
ProbeResult(host, st, hasCert) == [host |-> host, status |-> st, hasCert |-> hasCert]

Returns(res) == [kind |-> "return", result |-> res, exc |-> ""]
Raises(e) == [kind |-> "raise", result |-> ProbeResult(Null, "none", FALSE), exc |-> e]
Hangs == [kind |-> "hang", result |-> ProbeResult(Null, "none", FALSE), exc |-> ""]

\* SSLChecker.get_certificate_info(host) at time t with threshold thr, in the
\* modelled network: what the call does for each host.
\*   good.example     presents a certificate valid for another 100 days
\*   refused.example  refuses the connection: reported as data (`unreachable`)
\*   raises.example   makes the call raise
\*   hangs.example    never answers: the call does not return
\* and for an argument that is no string the call either raises or reports
\* the host unreachable (strict tells which).
get_certificate_info(host, t, thr, strict) ==
    IF host.t # "str"
    THEN IF strict THEN Raises("TypeError: host must be str")
         ELSE Returns(ProbeResult(host, "unreachable", FALSE))
    ELSE CASE host.s = "good.example" ->
                Returns(ProbeResult(host,
                    Classify(Certificate(Epoch + 100 * Day, FALSE), t, thr), TRUE))
           [] host.s = "refused.example" ->
                Returns(ProbeResult(host, "unreachable", FALSE))
           [] host.s = "raises.example" ->
                Raises("ConnectionError: raises.example")
           [] OTHER -> Hangs

\* ------------------------------------------------------ check_ssl, its parts
\* request.get_json() (line 10): the parsed body, or werkzeug's BadRequest when
\* the body is not valid JSON.
get_json(b) ==
    IF b.kind = "invalid"
    THEN [raised |-> TRUE, exc |-> "400 Bad Request", data |-> b]
    ELSE [raised |-> FALSE, exc |-> "", data |-> b]

\* `not data or 'hosts' not in data` (line 11): "yes", "no", or the TypeError
\* of `in` on a truthy value that is no container (5, true).
MissingHosts(data) ==
    IF ~data.truthy THEN "yes"
    ELSE IF data.kind \in {"int", "bool"} THEN "TypeError"
    ELSE IF data.has THEN "no" ELSE "yes"

\* data['hosts'] (line 14): the value of a dict, a TypeError for a str or a
\* list (their indices must be integers).
Subscript(data) ==
    IF data.kind = "dict"
    THEN [raised |-> FALSE, exc |-> "", value |-> data.hosts]
    ELSE [raised |-> TRUE, exc |-> "TypeError: indices must be integers",
          value |-> Null]

\* Lines 15-16 without the isinstance test: a string is iterated as it is.
NormalizeNever(hosts) == hosts.l

\* Lines 15-16: a value that is no list becomes the one-element list of it.
Normalize(hosts) == IF hosts.t = "list" THEN hosts.l ELSE <<hosts>>

\* `results` as a module-level list, made once and shared by every call.
AllocShared(h) ==
    IF Len(h) = 0 THEN [heap |-> <<<<>>>>, ref |-> 1] ELSE [heap |-> h, ref |-> 1]

\* `results = []` (line 22): a new list object on the heap and the reference
\* to it.
AllocList(h) == [heap |-> Append(h, <<>>), ref |-> Len(h) + 1]

\* The outcome of lines 10-16, before anything is constructed:
\*   "400"  the early return of line 12
\*   "500"  an exception of lines 10-14, caught at line 32
\*   "go"   the normalized list of hosts
Entry(b) ==
    LET j == get_json(b) IN
    IF j.raised THEN [out |-> "500", exc |-> j.exc, hosts |-> <<>>]
    ELSE LET m == MissingHosts(j.data) IN
         IF m = "TypeError"
         THEN [out |-> "500", exc |-> "TypeError: not iterable", hosts |-> <<>>]
         ELSE IF m = "yes" THEN [out |-> "400", exc |-> "", hosts |-> <<>>]
         ELSE LET v == Subscript(j.data) IN
              IF v.raised THEN [out |-> "500", exc |-> v.exc, hosts |-> <<>>]
              ELSE [out |-> "go", exc |-> "", hosts |-> Normalize(v.value)]

\* ------------------------------------------------------------------- state
VARIABLES
    pc,          \* per request thread: idle, entered, loop, probing, done
    body,        \* the request's body
    hosts,       \* check_ssl's local `hosts` after line 16
    ssl_checker, \* check_ssl's local `ssl_checker`: the SSLChecker made (0: none)
    checkers,    \* number of SSLChecker objects constructed so far
    results,     \* check_ssl's local `results`: a reference into heap (0: unbound)
    heap,        \* the list objects made by `results = []`
    idx,         \* the for loop's position in hosts
    calls,       \* the arguments of get_certificate_info so far, per request
    resp,        \* the response sent
    strict,      \* whether get_certificate_info raises for a non-string host
    now,         \* the clock classification reads
    threshold,   \* the expiry threshold
    cert,        \* the certificate under classification
    status       \* its classification ("none": not classified yet)

handler == <<pc, body, hosts, ssl_checker, checkers, results, heap, idx, calls, resp>>
world == <<strict, now, threshold>>
classification == <<cert, status>>
vars == <<handler, world, classification>>

InitHandler ==
    /\ pc = [r \in Requests |-> "idle"]
    /\ body = [r \in Requests |-> Body("NoneType", FALSE, FALSE, Null)]
    /\ hosts = [r \in Requests |-> <<>>]
    /\ ssl_checker = [r \in Requests |-> 0]
    /\ checkers = 0
    /\ results = [r \in Requests |-> 0]
    /\ heap = <<>>
    /\ idx = [r \in Requests |-> 0]
    /\ calls = [r \in Requests |-> <<>>]
    /\ resp = [r \in Requests |-> NoResponse]

Init ==
    /\ InitHandler
    /\ strict \in BOOLEAN
    /\ now = Epoch
    /\ threshold = DefaultThreshold
    /\ cert = Certificate(Epoch, FALSE)
    /\ status = "none"

\* A POST /api/check-ssl arrives on thread r with body b.
Receive(r, b) ==
    /\ pc[r] = "idle"
    /\ pc' = [pc EXCEPT ![r] = "entered"]
    /\ body' = [body EXCEPT ![r] = b]
    /\ UNCHANGED <<hosts, ssl_checker, checkers, results, heap, idx, calls, resp>>
    /\ UNCHANGED <<world, classification>>

\* Lines 9-12 and 32-36: the body has no usable `hosts`.
Reject(r) ==
    /\ pc[r] = "entered"
    /\ Entry(body[r]).out # "go"
    /\ resp' = [resp EXCEPT ![r] =
                    IF Entry(body[r]).out = "400" THEN Response400
                    ELSE Response500(Entry(body[r]).exc)]
    /\ pc' = [pc EXCEPT ![r] = "done"]
    /\ UNCHANGED <<body, hosts, ssl_checker, checkers, results, heap, idx, calls>>
    /\ UNCHANGED <<world, classification>>

\* Lines 14-22: normalize, construct the SSLChecker, results = [].
Start(r) ==
    /\ pc[r] = "entered"
    /\ Entry(body[r]).out = "go"
    /\ hosts' = [hosts EXCEPT ![r] = Entry(body[r]).hosts]
    /\ checkers' = checkers + 1
    /\ ssl_checker' = [ssl_checker EXCEPT ![r] = checkers + 1]
    /\ heap' = AllocList(heap).heap
    /\ results' = [results EXCEPT ![r] = AllocList(heap).ref]
    /\ idx' = [idx EXCEPT ![r] = 1]
    /\ pc' = [pc EXCEPT ![r] = "loop"]
    /\ UNCHANGED <<body, calls, resp>>
    /\ UNCHANGED <<world, classification>>

\* Lines 23-24: the loop takes the next host and calls get_certificate_info.
Call(r) ==
    /\ pc[r] = "loop"
    /\ idx[r] <= Len(hosts[r])
    /\ calls' = [calls EXCEPT ![r] = Append(@, hosts[r][idx[r]])]
    /\ pc' = [pc EXCEPT ![r] = "probing"]
    /\ UNCHANGED <<body, hosts, ssl_checker, checkers, results, heap, idx, resp>>
    /\ UNCHANGED <<world, classification>>

\* The host in the hands of get_certificate_info on thread r.
Probed(r) == get_certificate_info(hosts[r][idx[r]], now, threshold, strict)

\* Lines 24-25: the call returns and its result is appended.
Return(r) ==
    /\ pc[r] = "probing"
    /\ Probed(r).kind = "return"
    /\ heap' = [heap EXCEPT ![results[r]] = Append(@, Probed(r).result)]
    /\ idx' = [idx EXCEPT ![r] = @ + 1]
    /\ pc' = [pc EXCEPT ![r] = "loop"]
    /\ UNCHANGED <<body, hosts, ssl_checker, checkers, results, calls, resp>>
    /\ UNCHANGED <<world, classification>>

\* The call raises and a try/except inside the loop turns the exception into
\* the host's own entry; the loop goes on.
RaiseContinue(r) ==
    /\ pc[r] = "probing"
    /\ Probed(r).kind = "raise"
    /\ heap' = [heap EXCEPT ![results[r]] =
                    Append(@, ProbeResult(hosts[r][idx[r]], "unreachable", FALSE))]
    /\ idx' = [idx EXCEPT ![r] = @ + 1]
    /\ pc' = [pc EXCEPT ![r] = "loop"]
    /\ UNCHANGED <<body, hosts, ssl_checker, checkers, results, calls, resp>>
    /\ UNCHANGED <<world, classification>>

\* Lines 24 and 32-36: the call raises; the catch-all answers 500.
Raise(r) ==
    /\ pc[r] = "probing"
    /\ Probed(r).kind = "raise"
    /\ resp' = [resp EXCEPT ![r] = Response500(Probed(r).exc)]
    /\ pc' = [pc EXCEPT ![r] = "done"]
    /\ UNCHANGED <<body, hosts, ssl_checker, checkers, results, heap, idx, calls>>
    /\ UNCHANGED <<world, classification>>

\* Lines 27-30: the loop is over; the response carries the results list.
Respond(r) ==
    /\ pc[r] = "loop"
    /\ idx[r] > Len(hosts[r])
    /\ resp' = [resp EXCEPT ![r] = Response200(heap[results[r]])]
    /\ pc' = [pc EXCEPT ![r] = "done"]
    /\ UNCHANGED <<body, hosts, ssl_checker, checkers, results, heap, idx, calls>>
    /\ UNCHANGED <<world, classification>>

\* A step of the handler on thread r.
Step(r) == Reject(r) \/ Start(r) \/ Call(r) \/ Return(r) \/ Raise(r) \/ Respond(r)

Next ==
    \/ \E r \in Requests, b \in Bodies : Receive(r, b)
    \/ \E r \in Requests : Reject(r)
    \/ \E r \in Requests : Start(r)
    \/ \E r \in Requests : Call(r)
    \/ \E r \in Requests : Return(r)
    \/ \E r \in Requests : Raise(r)
    \/ \E r \in Requests : Respond(r)

Spec == Init /\ [][Next]_vars

\* Every request thread that can take a step eventually takes one: the server
\* runs each handler to its end.
FairSpec == Spec /\ \A r \in Requests : WF_vars(Step(r))

\* ------------------------------------------- classification, taken alone
\* The inputs classification is tried on: clocks, thresholds, and not-after
\* times around the clock and around the threshold.
Clocks == {Epoch, Epoch + 1}
Thresholds == {7 * Day, 30 * Day}
Offsets == {0 - Day, 0 - 1, 0, 1, 10 * Day, 30 * Day - 1, 30 * Day, 100 * Day}

InitClassify ==
    /\ InitHandler
    /\ strict = FALSE
    /\ now \in Clocks
    /\ threshold \in Thresholds
    /\ cert \in {Certificate(now + d, ss) : d \in Offsets, ss \in BOOLEAN}
    /\ status = "none"

\* The Prober classifies the certificate it retrieved.
ClassifyStep ==
    /\ status = "none"
    /\ status' = Classify(cert, now, threshold)
    /\ UNCHANGED <<handler, world, cert>>

NextClassify == ClassifyStep

ClassifySpec == InitClassify /\ [][NextClassify]_vars

\* ------------------------------------------------- check_ssl, taken alone
\* The loop of lines 23-25 and what follows it, run to its end on hosts hs from
\* position i with acc collected: the response, or NoResponse when a call
\* never returns.
RECURSIVE RunAlone(_, _, _, _, _, _)
RunAlone(hs, i, acc, t, thr, st) ==
    IF i > Len(hs) THEN Response200(acc)
    ELSE LET o == get_certificate_info(hs[i], t, thr, st) IN
         IF o.kind = "return"
         THEN RunAlone(hs, i + 1, Append(acc, o.result), t, thr, st)
         ELSE IF o.kind = "raise" THEN Response500(o.exc)
         ELSE NoResponse

\* The response of check_ssl to body b when no other request runs.
Alone(b, t, thr, st) ==
    CASE Entry(b).out = "400" -> Response400
      [] Entry(b).out = "500" -> Response500(Entry(b).exc)
      [] OTHER -> RunAlone(Entry(b).hosts, 1, <<>>, t, thr, st)

\* ------------------------------------------------------------- vocabulary
Done(r) == pc[r] = "done"

\* The body is a JSON object with a `hosts` field.
HasHostsField(b) == b.kind = "dict" /\ b.has

\* ... whose value is an array.
HostsIsList(b) == HasHostsField(b) /\ b.hosts.t = "list"

\* ... whose value is a host name or an array of host names.
WellFormed(b) ==
    /\ HasHostsField(b)
    /\ b.hosts.t \in {"str", "list"}
    /\ \A i \in 1..Len(b.hosts.l) : b.hosts.l[i].t = "str"

\* The outcome of probing host h in the current world.
Outcome(h) == get_certificate_info(h, now, threshold, strict)

\* Probes of request r in flight.
InFlight(r) == IF pc[r] = "probing" THEN 1 ELSE 0

\* ------------------------------------------------------------------ claims

\* C1: for every request whose body carries a non-empty list of hosts, the
\* response has a results list as long as the input list, and results[i] is
\* the result for hosts[i], whether or not a probe fails.
C1_OneResultPerHost ==
    \A r \in Requests :
        (Done(r) /\ HostsIsList(body[r]) /\ Len(body[r].hosts.l) > 0) =>
            /\ resp[r].hasResults
            /\ Len(resp[r].results) = Len(body[r].hosts.l)
            /\ \A i \in 1..Len(body[r].hosts.l) :
                   resp[r].results[i].host = body[r].hosts.l[i]

\* C2: a failure of get_certificate_info for one host never aborts the batch:
\* a request with a well-formed hosts field is never answered 500, every host
\* has its entry, and the entries of the hosts whose probe returned are the
\* results those probes returned.
C2_Isolation ==
    \A r \in Requests :
        (Done(r) /\ WellFormed(body[r])) =>
            /\ resp[r].status # 500
            /\ Len(resp[r].results) = Len(hosts[r])
            /\ \A i \in 1..Len(hosts[r]) :
                   Outcome(hosts[r][i]).kind = "return" =>
                       resp[r].results[i] = Outcome(hosts[r][i]).result

\* C3: a body that is not valid JSON or has no hosts field is answered 400
\* with the error "Missing hosts in request body", never 200 or 500.
C3_MissingHostsIs400 ==
    \A r \in Requests :
        (Done(r) /\ ~HasHostsField(body[r])) => resp[r] = Response400

\* C4: a hosts value that is a single string is handled as the one-element
\* array of that string: the local list is <<string>>, exactly one probe is
\* made, for that string, a 200 response carries exactly one result, and the
\* response equals that of a request sending the one-element array; an array
\* is used unchanged.
C4_Normalization ==
    /\ \A r \in Requests :
           (pc[r] \in {"loop", "probing", "done"} /\ HasHostsField(body[r])) =>
               hosts[r] = IF body[r].hosts.t = "list" THEN body[r].hosts.l
                          ELSE <<body[r].hosts>>
    /\ \A r \in Requests :
           (HasHostsField(body[r]) /\ body[r].hosts.t = "str") =>
               /\ calls[r] \in {<<>>, <<body[r].hosts>>}
               /\ (Done(r) /\ resp[r].status = 200) =>
                      /\ calls[r] = <<body[r].hosts>>
                      /\ Len(resp[r].results) = 1
                      /\ resp[r].results[1].host = body[r].hosts
    /\ \A r1, r2 \in Requests :
           ( /\ Done(r1) /\ Done(r2)
             /\ HasHostsField(body[r1]) /\ HasHostsField(body[r2])
             /\ body[r1].hosts.t = "str"
             /\ body[r2].hosts = List(<<body[r1].hosts>>) ) =>
               resp[r1] = resp[r2]

\* A single string and its one-element array were both answered, with 200.
C4_Witness ==
    /\ Done("r1") /\ Done("r2")
    /\ body["r1"] = Body("dict", TRUE, TRUE, Str("good.example"))
    /\ body["r2"] = Body("dict", TRUE, TRUE, List(<<Str("good.example")>>))
    /\ resp["r1"].status = 200
    /\ Len(resp["r1"].results) = 1

\* C5: fail fast. A 400 response comes before any probing (no SSLChecker made,
\* get_certificate_info never called); a request whose hosts field is missing
\* or invalid is never probed, and one whose hosts value is invalid ends in 400.
C5_FailFast ==
    \A r \in Requests :
        /\ resp[r].status = 400 => (ssl_checker[r] = 0 /\ calls[r] = <<>>)
        /\ (pc[r] # "idle" /\ ~WellFormed(body[r])) =>
               (ssl_checker[r] = 0 /\ calls[r] = <<>>)
        /\ (Done(r) /\ HasHostsField(body[r]) /\ ~WellFormed(body[r])) =>
               resp[r].status = 400

\* The batch holds a host whose probe never completes and one whose probe does.
SlowFast(b) ==
    /\ HostsIsList(b)
    /\ \E i \in 1..Len(b.hosts.l) : b.hosts.l[i] = Str("hangs.example")
    /\ \E i \in 1..Len(b.hosts.l) : b.hosts.l[i] = Str("good.example")

\* The response reports the completing hosts unchanged and the others `timeout`.
TimedOutResponse(r) ==
    /\ Done(r)
    /\ resp[r].status = 200
    /\ Len(resp[r].results) = Len(hosts[r])
    /\ \A i \in 1..Len(hosts[r]) :
           IF Outcome(hosts[r][i]).kind = "hang"
           THEN resp[r].results[i].status = "timeout"
           ELSE resp[r].results[i] = Outcome(hosts[r][i]).result

\* C6: batch timeout. A batch with a never-completing host and a completing
\* one eventually gets a response with the completing host's result and the
\* other host reported as `timeout`.
C6_BatchTimeout ==
    \A r \in Requests :
        (pc[r] = "entered" /\ SlowFast(body[r])) ~> TimedOutResponse(r)

\* C7: stateless and reentrant. Under any interleaving each response is the
\* one the request gets when it runs alone; two calls never hold the same
\* results list or SSLChecker; and the list a call holds contains the results
\* of its own hosts, in its own order.
C7_Reentrant ==
    /\ \A r \in Requests :
           Done(r) => resp[r] = Alone(body[r], now, threshold, strict)
    /\ \A r1, r2 \in Requests :
           (r1 # r2 /\ results[r1] # 0 /\ results[r2] # 0) =>
               (results[r1] # results[r2] /\ ssl_checker[r1] # ssl_checker[r2])
    /\ \A r \in Requests :
           pc[r] \in {"loop", "probing"} =>
               /\ Len(heap[results[r]]) = idx[r] - 1
               /\ \A i \in 1..(idx[r] - 1) :
                      heap[results[r]][i] = Outcome(hosts[r][i]).result

\* r2 entered first and is still probing its second host; r1 entered after it
\* and was answered with its own two results.
C7_Witness ==
    /\ results["r2"] = 1 /\ results["r1"] = 2
    /\ Done("r1") /\ resp["r1"].status = 200 /\ Len(resp["r1"].results) = 2
    /\ pc["r2"] = "probing" /\ Len(heap[1]) = 1

\* C8: bounded fan-out. At most the limit of probes (one, for the sequential
\* loop) is in flight per batch, and in a batch of more hosts than the limit
\* the hosts that waited are still probed and get a result, none failed or
\* dropped.
C8_BoundedFanOut ==
    \A r \in Requests :
        /\ InFlight(r) <= 1
        /\ (Done(r) /\ HostsIsList(body[r])) =>
               \A i \in 2..Len(body[r].hosts.l) :
                   /\ i <= Len(calls[r])
                   /\ i <= Len(resp[r].results)

\* C9: classification of a retrieved certificate: expired when now >
\* not_after; else expiring_soon when not_after - now < threshold; else ok for
\* a certificate that is not self-signed. So not_after = now - 1s is expired,
\* now + 10 days under threshold 30 days is expiring_soon, and now + 100 days
\* under threshold 30 days is ok.
C9_Classification ==
    status # "none" =>
        /\ now > cert.notAfter => status = "expired"
        /\ (now <= cert.notAfter /\ cert.notAfter - now < threshold) =>
               status = "expiring_soon"
        /\ (now <= cert.notAfter /\ cert.notAfter - now >= threshold
                /\ ~cert.selfSigned) => status = "ok"
        /\ cert.notAfter = now - 1 => status = "expired"
        /\ (cert.notAfter = now + 10 * Day /\ threshold = 30 * Day) =>
               status = "expiring_soon"
        /\ (cert.notAfter = now + 100 * Day /\ threshold = 30 * Day
                /\ ~cert.selfSigned) => status = "ok"

\* A certificate 10 days from expiry was classified under threshold 30 days.
C9_Witness ==
    /\ status = "expiring_soon"
    /\ cert.notAfter = now + 10 * Day
    /\ threshold = 30 * Day

\* C10: hosts are probed one at a time in input order; when
\* get_certificate_info raises for hosts[k] the loop stops there (no later
\* host is probed), the response is 500 with success false, the error string
\* and no results, whatever was collected; and a response carries either one
\* result per host (200) or none at all (400, 500).
C10_AbortOnRaise ==
    \A r \in Requests :
        /\ Len(calls[r]) <= Len(hosts[r])
        /\ calls[r] = SubSeq(hosts[r], 1, Len(calls[r]))
        /\ pc[r] = "probing" =>
               (Len(calls[r]) = idx[r] /\ Len(heap[results[r]]) = idx[r] - 1)
        /\ pc[r] = "loop" =>
               (Len(calls[r]) = idx[r] - 1 /\ Len(heap[results[r]]) = idx[r] - 1)
        /\ (Done(r) /\ calls[r] # <<>>
                /\ Outcome(calls[r][Len(calls[r])]).kind = "raise") =>
               /\ resp[r] = Response500(Outcome(calls[r][Len(calls[r])]).exc)
               /\ resp[r].success = "false" /\ ~resp[r].hasResults
               /\ Len(calls[r]) = idx[r]
        /\ Done(r) =>
               \/ /\ resp[r].status = 200 /\ resp[r].hasResults
                  /\ Len(resp[r].results) = Len(hosts[r])
               \/ /\ resp[r].status \in {400, 500} /\ ~resp[r].hasResults
                  /\ resp[r].results = <<>>

\* r1's second host raised after its first was collected: the collected result
\* is not in the 500 response; r2's first host raised: its second was never
\* probed.
C10_Witness ==
    /\ Done("r1") /\ Done("r2")
    /\ hosts["r1"] = <<Str("good.example"), Str("raises.example")>>
    /\ Len(heap[results["r1"]]) = 1 /\ resp["r1"].status = 500
    /\ hosts["r2"] = <<Str("raises.example"), Str("good.example")>>
    /\ calls["r2"] = <<Str("raises.example")>> /\ resp["r2"].status = 500

====
